---- MODULE Spec2Model ----
(***************************************************************************)
(* Weekly timetabling run of scenario_b_feasible.py: build the boolean     *)
(* model (variables x, five constraint families, the room-preference       *)
(* objective), solve it under a time limit, decode the returned assignment *)
(* into schedule entries and hand them to plot_schedule.                   *)
(*                                                                         *)
(* The data tables are scaled down (2 students, 2 subjects, 2 days,        *)
(* 2 periods, 2 rooms); the quotas, the subject-to-teacher mapping and     *)
(* teacher T1's allowed days are inputs drawn in Init.                     *)
(***************************************************************************)
EXTENDS Integers, Sequences, FiniteSets, TLC

\* Largest weekly quota a configuration gives a subject.
MaxHours == 2

----------------------------------------------------------------------------
\* Data

students == <<"S1", "S2">>

subjects == <<"A", "B">>

days == <<"Mon", "Tue">>

periods == 0 .. 1

rooms == [A |-> "Room_A", B |-> "Room_B"]

\* rooms.values(), in the dictionary's insertion order
RoomValues == [i \in 1 .. Len(subjects) |-> rooms[subjects[i]]]

\* range(len(days))
DayRange == 0 .. (Len(days) - 1)

Range(seq) == {seq[i] : i \in DOMAIN seq}

Pos(seq, e) == CHOOSE i \in DOMAIN seq : seq[i] = e

TeacherNames == {"T1", "T2"}

\* The subject-to-teacher tables a configuration may hold.
TeacherTables ==
    { [A |-> "T1", B |-> "T2"],
      [A |-> "T1", B |-> "T1"],
      [A |-> "T2", B |-> "T1"] }

HourTables == [Range(subjects) -> 0 .. MaxHours]

VARIABLES
    teachers,          \* subject -> teacher
    subject_hours,     \* subject -> weekly quota
    allowed_days_t1,   \* day indices teacher T1 works
    pc,                \* position of the script
    model,             \* constraint records added to the CpModel so far
    penalties,         \* variables summed by the minimised objective
    dom,               \* domain store: variable -> "U" | "T" | "F"
    stack,             \* search decisions, each with its checkpoint
    conflict,          \* the current branch is dead
    incumbent,         \* best complete assignment found, or NoIncumbent
    status,            \* solver status
    entries,           \* decoded schedule entries
    slot,              \* next position of the decode loop
    plot_called,       \* plot_schedule was invoked
    artifact           \* what plot_schedule saved, or NoArtifact

vars == << teachers, subject_hours, allowed_days_t1, pc, model, penalties,
           dom, stack, conflict, incumbent, status, entries, slot,
           plot_called, artifact >>

config == << teachers, subject_hours, allowed_days_t1 >>

----------------------------------------------------------------------------
\* Quick sanity check

required_A_lessons == Len(students) * subject_hours["A"]

t1_capacity == Cardinality(periods) * Cardinality(allowed_days_t1)

----------------------------------------------------------------------------
\* Decision variables: one per (student, subject, day, period, room)

x == { <<s, subj, d, p, r>> :
          s \in Range(students), subj \in Range(subjects),
          d \in DayRange, p \in periods, r \in Range(RoomValues) }

\* Position of a variable in the order the variables were created.
VarIndex(k) ==
    ((((Pos(students, k[1]) - 1) * Len(subjects)
        + (Pos(subjects, k[2]) - 1)) * Len(days)
        + k[3]) * Cardinality(periods)
        + k[4]) * Len(RoomValues)
        + (Pos(RoomValues, k[5]) - 1)

Linear(scope, op, bound) == [scope |-> scope, op |-> op, bound |-> bound]

\* Quota emitted as an upper limit instead of an equality.
QuotaConstraintsAtMost ==
    { Linear({k \in x : k[1] = s /\ k[2] = subj}, "<=", subject_hours[subj]) :
        s \in Range(students), subj \in Range(subjects) }

\* 1. Each student gets correct weekly hours per subject
QuotaConstraints ==
    { Linear({k \in x : k[1] = s /\ k[2] = subj}, "==", subject_hours[subj]) :
        s \in Range(students), subj \in Range(subjects) }

\* 2. A student cannot have two lessons at same time
StudentCapacityConstraints ==
    { Linear({k \in x : k[1] = s /\ k[3] = d /\ k[4] = p}, "<=", 1) :
        s \in Range(students), d \in DayRange, p \in periods }

\* Room capacity emitted with limit 2.
RoomCapacityTwo ==
    { Linear({k \in x : k[5] = r /\ k[3] = d /\ k[4] = p}, "<=", 2) :
        r \in Range(RoomValues), d \in DayRange, p \in periods }

\* 3. Room cannot host two classes at same time
RoomCapacityConstraints ==
    { Linear({k \in x : k[5] = r /\ k[3] = d /\ k[4] = p}, "<=", 1) :
        r \in Range(RoomValues), d \in DayRange, p \in periods }

\* Teacher exclusivity emitted with limit 2.
TeacherExclusivityTwo ==
    { Linear({k \in x : k[2] = subj /\ k[3] = d /\ k[4] = p}, "<=", 2) :
        subj \in Range(subjects), d \in DayRange, p \in periods }

\* 4. Teacher cannot teach two classes at same time (emitted per subject)
TeacherExclusivityConstraints ==
    { Linear({k \in x : k[2] = subj /\ k[3] = d /\ k[4] = p}, "<=", 1) :
        subj \in Range(subjects), d \in DayRange, p \in periods }

\* Availability test inverted: the allowed days are the ones closed.
TeacherAvailabilityInverted ==
    { Linear({k}, "==", 0) :
        k \in {v \in x : teachers[v[2]] = "T1" /\ v[3] \in allowed_days_t1} }

\* 5. Teacher 1 only works on the allowed days
TeacherAvailabilityConstraints ==
    { Linear({k}, "==", 0) :
        k \in {v \in x : teachers[v[2]] = "T1" /\ v[3] \notin allowed_days_t1} }

\* Room test inverted: the preferred room is the one penalised.
PenaltyVarsPreferred == {k \in x : k[5] = rooms[k[2]]}

\* Soft constraint: prefer dedicated room
PenaltyVars == {k \in x : k[5] # rooms[k[2]]}

----------------------------------------------------------------------------
\* Domain store and propagation

NoIncumbent == << >>

NoArtifact == << >>

AllUndecided == [k \in x |-> "U"]

TrueCount(c, d) == Cardinality({k \in c.scope : d[k] = "T"})

Undecided(c, d) == {k \in c.scope : d[k] = "U"}

\* The constraint can no longer be satisfied under store d.
Contradicts(c, d) ==
    IF c.op = "=="
    THEN \/ TrueCount(c, d) > c.bound
         \/ TrueCount(c, d) + Cardinality(Undecided(c, d)) < c.bound
    ELSE TrueCount(c, d) > c.bound

\* Undecided variables the constraints force to false under store d.
ForcedFalse(m, d) ==
    UNION { IF \/ c.op = "==" /\ TrueCount(c, d) = c.bound
               \/ c.op = "<=" /\ TrueCount(c, d) >= c.bound
            THEN Undecided(c, d) ELSE {} : c \in m }

\* Undecided variables the constraints force to true under store d.
ForcedTrue(m, d) ==
    UNION { IF c.op = "=="
               /\ TrueCount(c, d) + Cardinality(Undecided(c, d)) = c.bound
            THEN Undecided(c, d) ELSE {} : c \in m }

\* Store d with the variables of ff set false and those of ft set true.
Force(d, ff, ft) ==
    [k \in x |-> IF k \in ff THEN "F" ELSE IF k \in ft THEN "T" ELSE d[k]]

RECURSIVE Propagate(_, _)
\* Apply the forcing rules until a fixed point or a contradiction; each
\* round's forced sets and the store they yield are computed once.
Propagate(m, d) ==
    IF \E c \in m : Contradicts(c, d) THEN [ok |-> FALSE, dom |-> d]
    ELSE CHOOSE r \in
            { IF ff \cap ft # {} THEN [ok |-> FALSE, dom |-> d]
              ELSE IF ff \cup ft = {} THEN [ok |-> TRUE, dom |-> d]
              ELSE CHOOSE q \in {Propagate(m, nd) : nd \in {Force(d, ff, ft)}} : TRUE
              : ff \in {ForcedFalse(m, d)}, ft \in {ForcedTrue(m, d)} } : TRUE

Assign(d, k, val) == [d EXCEPT ![k] = val]

IsComplete(d) == \A k \in x : d[k] # "U"

\* Next undecided variable: lowest tuple index.
SelectVar(d) ==
    CHOOSE k \in x : /\ d[k] = "U"
                     /\ \A j \in x : d[j] = "U" => VarIndex(k) <= VarIndex(j)

\* Objective value of a store: the penalised variables that are true.
Penalty(d) == Cardinality({k \in penalties : d[k] = "T"})

\* The branch cannot beat the incumbent.
Pruned(d) == incumbent # NoIncumbent /\ Penalty(d) > Penalty(incumbent)

\* Status when the whole tree is explored.
ExhaustedStatus == IF incumbent # NoIncumbent THEN "OPTIMAL" ELSE "INFEASIBLE"

\* Replacement on ties as well.
ImprovesOrTies(d) == incumbent = NoIncumbent \/ Penalty(d) <= Penalty(incumbent)

\* A complete assignment replaces the incumbent when strictly better.
Improves(d) == incumbent = NoIncumbent \/ Penalty(d) < Penalty(incumbent)

\* An incumbent at the deadline reported as proven optimal.
DeadlineStatusOptimal == IF incumbent # NoIncumbent THEN "OPTIMAL" ELSE "UNKNOWN"

\* Status when the deadline is hit.
DeadlineStatus == IF incumbent # NoIncumbent THEN "FEASIBLE" ELSE "UNKNOWN"

\* solver.Value(x[k])
Value(k) == incumbent[k] = "T"

----------------------------------------------------------------------------
\* Decoding and rendering

period_count == Cardinality(periods)

\* Loops nested day, student, period.
SlotOrderDayMajor ==
    [i \in 1 .. (Len(students) * Len(days) * period_count) |->
        << students[(((i - 1) \div period_count) % Len(students)) + 1],
           (i - 1) \div (Len(students) * period_count),
           (i - 1) % period_count >>]

\* (student, day, period) in the order of the decode loops.
SlotOrder ==
    [i \in 1 .. (Len(students) * Len(days) * period_count) |->
        << students[((i - 1) \div (Len(days) * period_count)) + 1],
           ((i - 1) \div period_count) % Len(days),
           (i - 1) % period_count >>]

\* (subject, room) in the order of the inner scan.
ScanOrder ==
    [i \in 1 .. (Len(subjects) * Len(RoomValues)) |->
        << subjects[((i - 1) \div Len(RoomValues)) + 1],
           RoomValues[((i - 1) % Len(RoomValues)) + 1] >>]

\* Entries the inner scan appends for one (student, day, period).
SlotEntries(sdp) ==
    LET hits == SelectSeq(ScanOrder,
                    LAMBDA sr : Value(<<sdp[1], sr[1], sdp[2], sdp[3], sr[2]>>))
    IN  [i \in 1 .. Len(hits) |->
            <<sdp[1], sdp[2], sdp[3], hits[i][1], hits[i][2]>>]

\* The blocks plot_schedule draws, one per entry.
Blocks(es) ==
    [i \in DOMAIN es |->
        [start |-> es[i][2] * period_count + es[i][3],
         row   |-> es[i][1],
         label |-> es[i][4],
         color |-> es[i][5]]]

\* The figure is drawn but never saved.
RenderedUnsaved(es) == NoArtifact

\* What plot_schedule leaves on disk: nothing for an empty entry list.
Rendered(es) ==
    IF es = << >> THEN NoArtifact
    ELSE [path |-> "scenario_b_gantt.png", blocks |-> Blocks(es)]

----------------------------------------------------------------------------
\* The run

Init ==
    /\ teachers \in TeacherTables
    /\ subject_hours \in HourTables
    /\ allowed_days_t1 \in SUBSET DayRange
    /\ pc = "sanity"
    /\ model = {}
    /\ penalties = {}
    /\ dom = AllUndecided
    /\ stack = << >>
    /\ conflict = FALSE
    /\ incumbent = NoIncumbent
    /\ status = "NONE"
    /\ entries = << >>
    /\ slot = 1
    /\ plot_called = FALSE
    /\ artifact = NoArtifact

\* The sanity check prints the two numbers and goes on.
SanityCheck ==
    /\ pc = "sanity"
    /\ pc' = "quota"
    /\ UNCHANGED << config, model, penalties, dom, stack, conflict, incumbent,
                    status, entries, slot, plot_called, artifact >>

\* model.Add(sum(...) == subject_hours[subj]) per student and subject
AddQuota ==
    /\ pc = "quota"
    /\ model' = model \cup QuotaConstraints
    /\ pc' = "student"
    /\ UNCHANGED << config, penalties, dom, stack, conflict, incumbent,
                    status, entries, slot, plot_called, artifact >>

\* model.Add(sum(...) <= 1) per student and slot
AddStudentCapacity ==
    /\ pc = "student"
    /\ model' = model \cup StudentCapacityConstraints
    /\ pc' = "room"
    /\ UNCHANGED << config, penalties, dom, stack, conflict, incumbent,
                    status, entries, slot, plot_called, artifact >>

\* model.Add(sum(...) <= 1) per room and slot
AddRoomCapacity ==
    /\ pc = "room"
    /\ model' = model \cup RoomCapacityConstraints
    /\ pc' = "teacher"
    /\ UNCHANGED << config, penalties, dom, stack, conflict, incumbent,
                    status, entries, slot, plot_called, artifact >>

\* model.Add(sum(...) <= 1) per subject and slot
AddTeacherExclusivity ==
    /\ pc = "teacher"
    /\ model' = model \cup TeacherExclusivityConstraints
    /\ pc' = "avail"
    /\ UNCHANGED << config, penalties, dom, stack, conflict, incumbent,
                    status, entries, slot, plot_called, artifact >>

\* model.Add(x[...] == 0) on the days T1 does not work
AddTeacherAvailability ==
    /\ pc = "avail"
    /\ model' = model \cup TeacherAvailabilityConstraints
    /\ pc' = "objective"
    /\ UNCHANGED << config, penalties, dom, stack, conflict, incumbent,
                    status, entries, slot, plot_called, artifact >>

\* model.Minimize(sum(penalties))
Minimize ==
    /\ pc = "objective"
    /\ penalties' = PenaltyVars
    /\ pc' = "solve"
    /\ UNCHANGED << config, model, dom, stack, conflict, incumbent,
                    status, entries, slot, plot_called, artifact >>

\* Solve begins: propagate once before the first branching decision.
SolveStart ==
    /\ pc = "solve"
    /\ LET r == Propagate(model, AllUndecided)
       IN  /\ dom' = r.dom
           /\ conflict' = ~r.ok
    /\ pc' = "search"
    /\ UNCHANGED << config, model, penalties, stack, incumbent,
                    status, entries, slot, plot_called, artifact >>

\* The deadline check at a node, before branching: the search unwinds.
DeadlineExpire ==
    /\ pc = "search"
    /\ ~conflict
    /\ ~IsComplete(dom)
    /\ status' = DeadlineStatus
    /\ pc' = "solved"
    /\ dom' = AllUndecided
    /\ stack' = << >>
    /\ UNCHANGED << config, model, penalties, conflict, incumbent,
                    entries, slot, plot_called, artifact >>

\* Branch and bound: the node cannot beat the incumbent.
Prune ==
    /\ pc = "search"
    /\ ~conflict
    /\ ~IsComplete(dom)
    /\ Pruned(dom)
    /\ conflict' = TRUE
    /\ UNCHANGED << config, pc, model, penalties, dom, stack, incumbent,
                    status, entries, slot, plot_called, artifact >>

\* Branch: assign the selected variable true and propagate.
Descend ==
    /\ pc = "search"
    /\ ~conflict
    /\ ~IsComplete(dom)
    /\ ~Pruned(dom)
    /\ LET v == SelectVar(dom)
           r == Propagate(model, Assign(dom, v, "T"))
       IN  /\ stack' = Append(stack, [var |-> v, val |-> "T", saved |-> dom])
           /\ dom' = r.dom
           /\ conflict' = ~r.ok
    /\ UNCHANGED << config, pc, model, penalties, incumbent,
                    status, entries, slot, plot_called, artifact >>

\* Every variable is decided: offer the assignment to the optimizer, go on.
Complete ==
    /\ pc = "search"
    /\ ~conflict
    /\ IsComplete(dom)
    /\ incumbent' = IF Improves(dom) THEN dom ELSE incumbent
    /\ conflict' = TRUE
    /\ UNCHANGED << config, pc, model, penalties, dom, stack,
                    status, entries, slot, plot_called, artifact >>

\* Dead branch whose last decision was true: roll back and try false.
TryFalse ==
    /\ pc = "search"
    /\ conflict
    /\ stack # << >>
    /\ LET top == stack[Len(stack)]
           r == Propagate(model, Assign(top.saved, top.var, "F"))
       IN  /\ top.val = "T"
           /\ stack' = [stack EXCEPT ![Len(stack)].val = "F"]
           /\ dom' = r.dom
           /\ conflict' = ~r.ok
    /\ UNCHANGED << config, pc, model, penalties, incumbent,
                    status, entries, slot, plot_called, artifact >>

\* Dead branch whose last decision was false: roll back to the ancestor.
Backtrack ==
    /\ pc = "search"
    /\ conflict
    /\ stack # << >>
    /\ LET top == stack[Len(stack)]
       IN  /\ top.val = "F"
           /\ stack' = SubSeq(stack, 1, Len(stack) - 1)
           /\ dom' = top.saved
    /\ UNCHANGED << config, pc, model, penalties, conflict, incumbent,
                    status, entries, slot, plot_called, artifact >>

\* The whole tree is explored.
Exhausted ==
    /\ pc = "search"
    /\ conflict
    /\ stack = << >>
    /\ status' = ExhaustedStatus
    /\ pc' = "solved"
    /\ dom' = AllUndecided
    /\ conflict' = FALSE
    /\ UNCHANGED << config, model, penalties, stack, incumbent,
                    entries, slot, plot_called, artifact >>

\* if status in [OPTIMAL, FEASIBLE]: decode and plot; else report failure.
StatusGate ==
    /\ pc = "solved"
    /\ pc' = IF status \in {"OPTIMAL", "FEASIBLE"} THEN "decode" ELSE "done"
    /\ UNCHANGED << config, model, penalties, dom, stack, conflict, incumbent,
                    status, entries, slot, plot_called, artifact >>

\* One iteration of the (student, day, period) loops.
DecodeSlot ==
    /\ pc = "decode"
    /\ slot <= Len(SlotOrder)
    /\ entries' = entries \o SlotEntries(SlotOrder[slot])
    /\ slot' = slot + 1
    /\ UNCHANGED << config, pc, model, penalties, dom, stack, conflict,
                    incumbent, status, plot_called, artifact >>

\* plot_schedule(entries, ...)
PlotSchedule ==
    /\ pc = "decode"
    /\ slot > Len(SlotOrder)
    /\ plot_called' = TRUE
    /\ artifact' = Rendered(entries)
    /\ pc' = "done"
    /\ UNCHANGED << config, model, penalties, dom, stack, conflict, incumbent,
                    status, entries, slot >>

Next ==
    \/ SanityCheck
    \/ AddQuota
    \/ AddStudentCapacity
    \/ AddRoomCapacity
    \/ AddTeacherExclusivity
    \/ AddTeacherAvailability
    \/ Minimize
    \/ SolveStart
    \/ DeadlineExpire
    \/ Prune
    \/ Descend
    \/ Complete
    \/ TryFalse
    \/ Backtrack
    \/ Exhausted
    \/ StatusGate
    \/ DecodeSlot
    \/ PlotSchedule

Spec == Init /\ [][Next]_vars

\* The script runs to its end: every enabled step is eventually taken.
FairSpec == Spec /\ WF_vars(Next)

----------------------------------------------------------------------------
\* The hard constraints, restated on the set of true variables

TrueVars(a) == {k \in x : a[k] = "T"}

HardSet(t) ==
    /\ \A s \in Range(students), subj \in Range(subjects) :
          Cardinality({k \in t : k[1] = s /\ k[2] = subj}) = subject_hours[subj]
    /\ \A k1, k2 \in t :
          (k1 # k2 /\ k1[3] = k2[3] /\ k1[4] = k2[4]) =>
              /\ k1[1] # k2[1]
              /\ k1[5] # k2[5]
              /\ k1[2] # k2[2]
    /\ \A k \in t : teachers[k[2]] = "T1" => k[3] \in allowed_days_t1

\* Entries whose room differs from the subject's preferred room.
RoomPenalty(t) == Cardinality({k \in t : k[5] # rooms[k[2]]})

Slots == DayRange \X periods

Free == <<"free", "free">>

Choices == {Free} \cup (Range(subjects) \X Range(RoomValues))

\* One student's week: a lesson or a free period per slot, quotas met.
StudentPlans ==
    { f \in [Slots -> Choices] :
        \A subj \in Range(subjects) :
            Cardinality({sl \in Slots : f[sl][1] = subj}) = subject_hours[subj] }

KeysOf(g) ==
    { k \in { <<s, g[s][sl][1], sl[1], sl[2], g[s][sl][2]>> :
                 s \in Range(students), sl \in Slots } : k[2] # "free" }

\* Every assignment that satisfies all hard constraints, as its true variables.
FeasibleSchedules ==
    { KeysOf(g) : g \in {h \in [Range(students) -> StudentPlans] : HardSet(KeysOf(h))} }

Solved == status \in {"OPTIMAL", "FEASIBLE"}

\* The decode loops have run to their end.
Decoded == Solved /\ pc \in {"decode", "done"} /\ slot > Len(SlotOrder)

EntryCount(s, subj) ==
    Cardinality({i \in DOMAIN entries : entries[i][1] = s /\ entries[i][4] = subj})

----------------------------------------------------------------------------
\* C1: once decoding is finished after OPTIMAL or FEASIBLE, every
\* (student, subject) pair has exactly subject_hours[subject] entries.
C1_QuotaExact ==
    Decoded =>
        \A s \in Range(students), subj \in Range(subjects) :
            EntryCount(s, subj) = subject_hours[subj]

C1_Witness ==
    /\ Decoded
    /\ subject_hours["A"] = 2
    /\ subject_hours["B"] = 1
    /\ Len(entries) = 6

\* C2: no two distinct decoded entries share (student, day, period), and no
\* two share (room, day, period).
C2_NoStudentOrRoomClash ==
    \A i, j \in DOMAIN entries :
        (i # j /\ entries[i][2] = entries[j][2] /\ entries[i][3] = entries[j][3]) =>
            /\ entries[i][1] # entries[j][1]
            /\ entries[i][5] # entries[j][5]

C2_Witness ==
    /\ Decoded
    /\ \E i, j \in DOMAIN entries :
          /\ i # j
          /\ entries[i][2] = entries[j][2]
          /\ entries[i][3] = entries[j][3]

\* C3: no two distinct decoded entries whose subjects map to the same teacher
\* share (day, period), whatever the subject-to-teacher table.
C3_NoTeacherClash ==
    \A i, j \in DOMAIN entries :
        (i # j /\ teachers[entries[i][4]] = teachers[entries[j][4]]) =>
            ~(entries[i][2] = entries[j][2] /\ entries[i][3] = entries[j][3])

\* Variables of T1's subjects on days T1 does not work.
Disallowed == {k \in x : teachers[k[2]] = "T1" /\ k[3] \notin allowed_days_t1}

\* C4: the variables of T1's subjects on disallowed days are false in the
\* store throughout the search and in the incumbent, and every decoded entry
\* of a T1 subject lies on an allowed day.
C4_Availability ==
    /\ pc = "search" => \A k \in Disallowed : dom[k] = "F"
    /\ incumbent # NoIncumbent => \A k \in Disallowed : incumbent[k] = "F"
    /\ \A i \in DOMAIN entries :
          teachers[entries[i][4]] = "T1" => entries[i][2] \in allowed_days_t1

C4_Witness ==
    /\ Decoded
    /\ allowed_days_t1 = {1}
    /\ \E i \in DOMAIN entries : teachers[entries[i][4]] = "T1"

\* C5: when the solver returns OPTIMAL, the returned assignment's room
\* penalty is at most that of every assignment satisfying the hard constraints.
C5_OptimalIsMinimal ==
    (pc = "solved" /\ status = "OPTIMAL") =>
        \A t \in FeasibleSchedules :
            RoomPenalty(TrueVars(incumbent)) <= RoomPenalty(t)

C5_Witness ==
    /\ pc = "solved"
    /\ status = "OPTIMAL"
    /\ subject_hours["A"] = 2
    /\ subject_hours["B"] = 1
    /\ \E t \in FeasibleSchedules : RoomPenalty(t) > RoomPenalty(TrueVars(incumbent))

\* The step on which Solve returns.
SolveReturns == pc = "search" /\ pc' = "solved"

\* C6: the run ends, and Solve returns OPTIMAL exactly when the tree is
\* exhausted with an incumbent, INFEASIBLE when exhausted without one,
\* FEASIBLE when cut off by the deadline with an incumbent, UNKNOWN when
\* cut off without one; INFEASIBLE only if no feasible assignment exists.
C6_StatusClassification ==
    /\ <>(pc = "done")
    /\ [][SolveReturns =>
            /\ status' = IF conflict /\ stack = << >>
                         THEN (IF incumbent # NoIncumbent THEN "OPTIMAL" ELSE "INFEASIBLE")
                         ELSE (IF incumbent # NoIncumbent THEN "FEASIBLE" ELSE "UNKNOWN")
            /\ incumbent' = incumbent
            /\ status' = "INFEASIBLE" => FeasibleSchedules = {}
         ]_vars

C6_Witness ==
    /\ pc = "done"
    /\ status = "INFEASIBLE"
    /\ subject_hours["A"] > 0
    /\ allowed_days_t1 # {}

\* Lesson-slots teacher t must give, and the slots t can give.
TeacherRequired(t) ==
    Len(students) *
        ( (IF teachers["A"] = t THEN subject_hours["A"] ELSE 0)
        + (IF teachers["B"] = t THEN subject_hours["B"] ELSE 0) )

TeacherCapacity(t) ==
    Cardinality(periods) *
        (IF t = "T1" THEN Cardinality(allowed_days_t1) ELSE Len(days))

Overloaded == \E t \in TeacherNames : TeacherRequired(t) > TeacherCapacity(t)

SanityFails == teachers["A"] = "T1" /\ required_A_lessons > t1_capacity

C8_ArtifactAlways ==
    pc = "done" =>
        IF Solved
        THEN plot_called /\ artifact # NoArtifact
        ELSE ~plot_called /\ entries = << >>

\* C8 amended: after OPTIMAL or FEASIBLE the renderer is invoked and persists
\* one block per entry exactly when there is at least one entry; otherwise
\* nothing is decoded, the renderer is not invoked and nothing is persisted.
C8_ArtifactIffEntries ==
    /\ pc # "done" => ~plot_called /\ artifact = NoArtifact
    /\ pc = "done" =>
          IF Solved
          THEN /\ plot_called
               /\ entries = << >> => artifact = NoArtifact
               /\ entries # << >> =>
                     /\ artifact # NoArtifact
                     /\ Len(artifact.blocks) = Len(entries)
                     /\ \A i \in DOMAIN entries :
                           /\ artifact.blocks[i].row = entries[i][1]
                           /\ artifact.blocks[i].label = entries[i][4]
                           /\ artifact.blocks[i].color = entries[i][5]
          ELSE ~plot_called /\ entries = << >> /\ artifact = NoArtifact

C8_Witness ==
    /\ pc = "done"
    /\ Solved
    /\ plot_called
    /\ entries = << >>
    /\ artifact = NoArtifact

\* Sort key of an entry: student position, day, period.
EntryKey(e) ==
    ((Pos(students, e[1]) - 1) * Len(days) + e[2]) * Cardinality(periods) + e[3]

RECURSIVE DecodeFrom(_)
\* The whole decode, from loop position i on.
DecodeFrom(i) ==
    IF i > Len(SlotOrder) THEN << >>
    ELSE SlotEntries(SlotOrder[i]) \o DecodeFrom(i + 1)

\* C9: the entries are in strictly increasing (student, day, period) order,
\* so each slot contributes at most one; each entry is a true variable of the
\* incumbent, and the finished decode holds exactly the true variables and
\* equals a second decode of the same assignment.
C9_DecodeOrdered ==
    /\ \A i, j \in DOMAIN entries :
          i < j => EntryKey(entries[i]) < EntryKey(entries[j])
    /\ \A i \in DOMAIN entries :
          LET e == entries[i]
          IN  incumbent[<<e[1], e[4], e[2], e[3], e[5]>>] = "T"
    /\ Decoded =>
          /\ Len(entries) = Cardinality(TrueVars(incumbent))
          /\ entries = DecodeFrom(1)

C9_Witness ==
    /\ Decoded
    /\ \E i, j \in DOMAIN entries :
          /\ i < j
          /\ entries[i][1] = "S1"
          /\ entries[j][1] = "S2"
          /\ entries[i][2] > entries[j][2]
    /\ \E i, j \in DOMAIN entries :
          /\ i < j
          /\ entries[i][1] = entries[j][1]
          /\ entries[i][2] < entries[j][2]
          /\ entries[i][3] > entries[j][3]
    /\ Len(entries) < Len(SlotOrder)

\* C10: on every step the incumbent, if any, is a complete assignment that
\* satisfies the hard constraints; it changes only at a complete node, to that
\* node's assignment, and only to a strictly lower penalty; no other step
\* (backtrack, deadline, decode) alters it.
C10_IncumbentSound ==
    [][ /\ incumbent' # NoIncumbent =>
              /\ \A k \in x : incumbent'[k] \in {"T", "F"}
              /\ HardSet(TrueVars(incumbent'))
        /\ incumbent' # incumbent =>
              /\ pc = "search" /\ ~conflict /\ IsComplete(dom)
              /\ incumbent' = dom
              /\ incumbent # NoIncumbent =>
                    RoomPenalty(TrueVars(incumbent')) < RoomPenalty(TrueVars(incumbent))
      ]_vars

C10_Witness ==
    /\ pc = "search"
    /\ incumbent # NoIncumbent
    /\ RoomPenalty(TrueVars(incumbent)) = 0
    /\ conflict
    /\ stack # << >>
    /\ \E t \in FeasibleSchedules : RoomPenalty(t) > 0

====
